---- MODULE Spec2Model ----
(***************************************************************************)
(* Player Performance API (server.js, database/setup.js).                  *)
(*                                                                         *)
(* The state is the SQLite database behind the Sequelize models (one set   *)
(* of rows per table plus the AUTOINCREMENT counters), the wall clock      *)
(* jwt reads, the tokens login has handed out, the response of the request *)
(* handled last, and the ids of the Players deleted so far.  Every route   *)
(* of server.js is one action: the middleware chain (requireAuth,          *)
(* requireCoach) followed by the handler.  SpecConcurrent takes the two    *)
(* handlers that await storage twice (register, update) one storage call   *)
(* at a time; calls holds their requests between and after the two calls.  *)
(*                                                                         *)
(* Text fields are strings, "" standing for a field the body does not      *)
(* carry (undefined or '' in JS, both falsy).  Emails are sequences of     *)
(* characters so that the isEmail validator is computed; <<>> is a missing *)
(* email.  Ids are numbers, 0 standing for a missing or null id.  Optional *)
(* numbers are <<>> (absent) or <<v>>.                                     *)
(***************************************************************************)
EXTENDS Integers, Sequences, FiniteSets, TLC

VARIABLES users, players, stats, sessions, evals, seq, now, tokens, last, deleted, calls

vars == <<users, players, stats, sessions, evals, seq, now, tokens, last, deleted, calls>>

-----------------------------------------------------------------------------
(* Bounds of the model.                                                    *)

MaxSize == 4        \* rows ever inserted, tokens handed out, clock ticks and
                    \* requests taken one storage call at a time, together

(* Program constants.                                                      *)

ExpiresIn == 2      \* expiresIn: "1d", in clock ticks of 12 hours
NameMin == 2        \* User.name validate len [2, 50]
NameMax == 50
RatingMin == 1      \* CoachEvaluation.rating validate min/max
RatingMax == 10
AccuracyMin == 0    \* PerformanceStat.passAccuracy validate min/max
AccuracyMax == 100

JWT_SECRET == "secret"

-----------------------------------------------------------------------------
(* Input domains.                                                          *)

EmailA == <<"a", "@", "x">>
EmailB == <<"b", "@", "x">>
EmailBad == <<"a", "x">>
NoEmail == <<>>

Emails == {NoEmail, EmailBad, EmailA, EmailB}
UserNames == {"", "A", "Al"}
Passwords == {"", "p1"}
LoginPasswords == {"", "p1", "zz"}
RoleInputs == {"", "coach", "admin"}

PlayerNames == {"", "Al"}
UpdateNames == {"", "Bo", "<null>"}
Dates == {"", "2025-10-24"}
Accuracies == {<<>>, <<100>>, <<101>>}
Ratings == {<<>>, <<0>>, <<10>>, <<11>>}

UserIds == 0..1
PlayerIds == 0..2

-----------------------------------------------------------------------------
(* The database as one value, for the handlers to read and return.         *)

DB == [users |-> users, players |-> players, stats |-> stats,
       sessions |-> sessions, evals |-> evals, seq |-> seq]

Res(status, error, d) == [status |-> status, error |-> error, db |-> d, body |-> {}]

ResBody(status, d, body) == [status |-> status, error |-> "", db |-> d, body |-> body]

Ids(rows) == {r.id : r \in rows}

-----------------------------------------------------------------------------
(* bcrypt: a one-way value that compare matches against the password it    *)
(* was made from.                                                          *)

Hash(password) == <<"$2a$10$", password>>

Compare(password, hashed) == hashed = Hash(password)

(* validator isEmail, on the emails of the model: one "@" with something   *)
(* on both sides.                                                          *)
IsEmail(e) ==
    /\ Cardinality({i \in 1..Len(e) : e[i] = "@"}) = 1
    /\ e[1] # "@"
    /\ e[Len(e)] # "@"

(* The validators with the lower length bound excluded.                    *)
UserValidLonger(name, email, role) ==
    /\ Len(name) > NameMin
    /\ Len(name) <= NameMax
    /\ IsEmail(email)
    /\ role \in {"player", "coach"}

(* The validators of the User model, run by User.create before the INSERT. *)
UserValid(name, email, role) ==
    /\ Len(name) >= NameMin
    /\ Len(name) <= NameMax
    /\ IsEmail(email)
    /\ role \in {"player", "coach"}

-----------------------------------------------------------------------------
(* jsonwebtoken.  sign stamps iat with the clock and exp = iat + expiresIn; *)
(* verify checks the signature first, then rejects once the clock has      *)
(* reached exp.                                                            *)

Sign(user, t) ==
    [id |-> user.id, role |-> user.role, email |-> user.email,
     iat |-> t, exp |-> t + ExpiresIn, sig |-> JWT_SECRET]

(* verify with the expiry compared the other way: still good at exp.       *)
VerifyThroughExp(token, t) ==
    IF token.sig # JWT_SECRET THEN "JsonWebTokenError"
    ELSE IF t > token.exp THEN "TokenExpiredError"
    ELSE "ok"

Verify(token, t) ==
    IF token.sig # JWT_SECRET THEN "JsonWebTokenError"
    ELSE IF t >= token.exp THEN "TokenExpiredError"
    ELSE "ok"

Claims(token) == [id |-> token.id, role |-> token.role, email |-> token.email]

(* Authorization headers: none, or a Bearer token.  Clients send the       *)
(* tokens login handed out; ForgedToken is one signed with another key.    *)
NoHeader == [scheme |-> "none"]
Bearer(token) == [scheme |-> "Bearer", token |-> token]

ForgedToken ==
    [id |-> 1, role |-> "coach", email |-> EmailA,
     iat |-> 0, exp |-> MaxSize + ExpiresIn, sig |-> "other"]

Headers == {NoHeader} \cup {Bearer(t) : t \in tokens}

NoUser == [id |-> 0, role |-> "", email |-> NoEmail]

(* requireAuth turning every token away once a logout has been served.     *)
requireAuthAfterLogout(header, t) ==
    IF header.scheme # "Bearer" \/ last.route = "POST /api/logout"
    THEN [pass |-> FALSE, status |-> 401,
          error |-> "Access denied. No token provided.", user |-> NoUser]
    ELSE IF Verify(header.token, t) = "ok"
    THEN [pass |-> TRUE, status |-> 200, error |-> "", user |-> Claims(header.token)]
    ELSE [pass |-> FALSE, status |-> 401,
          error |-> "Invalid token. Please log in again.", user |-> NoUser]

(* requireAuth: pass with req.user set, or the 401 it answers.             *)
requireAuth(header, t) ==
    IF header.scheme # "Bearer"
    THEN [pass |-> FALSE, status |-> 401,
          error |-> "Access denied. No token provided.", user |-> NoUser]
    ELSE LET v == Verify(header.token, t) IN
         IF v = "ok"
         THEN [pass |-> TRUE, status |-> 200, error |-> "", user |-> Claims(header.token)]
         ELSE IF v = "TokenExpiredError"
         THEN [pass |-> FALSE, status |-> 401,
               error |-> "Token expired. Please log in again.", user |-> NoUser]
         ELSE [pass |-> FALSE, status |-> 401,
               error |-> "Invalid token. Please log in again.", user |-> NoUser]

(* requireCoach letting every authenticated role through.                  *)
requireCoachAnyRole(user) ==
    IF user = NoUser
    THEN [pass |-> FALSE, status |-> 401, error |-> "Authentication required"]
    ELSE [pass |-> TRUE, status |-> 200, error |-> ""]

(* requireCoach: pass, or the 401/403 it answers.                          *)
requireCoach(user) ==
    IF user = NoUser
    THEN [pass |-> FALSE, status |-> 401, error |-> "Authentication required"]
    ELSE IF user.role = "coach"
    THEN [pass |-> TRUE, status |-> 200, error |-> ""]
    ELSE [pass |-> FALSE, status |-> 403, error |-> "Manager or Admin role required"]

-----------------------------------------------------------------------------
(* AUTH ROUTES                                                             *)

(* register without the findOne lookup: the INSERT then meets the unique   *)
(* index on email.                                                         *)
RegisterHandlerNoLookup(d, b) ==
    IF b.name = "" \/ b.email = NoEmail \/ b.password = ""
    THEN Res(400, "Name, email, and password are required", d)
    ELSE LET role == IF b.role = "" THEN "player" ELSE b.role
             id == d.seq.users + 1
             newUser == [id |-> id, name |-> b.name, email |-> b.email,
                         password |-> Hash(b.password), role |-> role]
         IN IF ~UserValid(b.name, b.email, role) \/ (\E u \in d.users : u.email = b.email)
            THEN Res(500, "Failed to register user", d)
            ELSE ResBody(201,
                         [d EXCEPT !.users = @ \cup {newUser}, !.seq.users = id],
                         {[id |-> id, name |-> b.name, email |-> b.email]})

(* register writing over the Identity that has the email (an upsert)      *)
(* instead of answering the conflict.                                      *)
RegisterHandlerUpsert(d, b) ==
    IF b.name = "" \/ b.email = NoEmail \/ b.password = ""
    THEN Res(400, "Name, email, and password are required", d)
    ELSE LET role == IF b.role = "" THEN "player" ELSE b.role
             old == {u \in d.users : u.email = b.email}
             id == IF old = {} THEN d.seq.users + 1 ELSE (CHOOSE u \in old : TRUE).id
             newUser == [id |-> id, name |-> b.name, email |-> b.email,
                         password |-> Hash(b.password), role |-> role]
         IN IF ~UserValid(b.name, b.email, role)
            THEN Res(500, "Failed to register user", d)
            ELSE ResBody(201,
                         [d EXCEPT !.users = (@ \ old) \cup {newUser},
                                   !.seq.users = IF old = {} THEN id ELSE @],
                         {[id |-> id, name |-> b.name, email |-> b.email]})

(* POST /auth/register *)
RegisterHandler(d, b) ==
    IF b.name = "" \/ b.email = NoEmail \/ b.password = ""
    THEN Res(400, "Name, email, and password are required", d)
    ELSE IF \E u \in d.users : u.email = b.email
    THEN Res(400, "Email already in use", d)
    ELSE LET role == IF b.role = "" THEN "player" ELSE b.role
             id == d.seq.users + 1
             newUser == [id |-> id, name |-> b.name, email |-> b.email,
                         password |-> Hash(b.password), role |-> role]
         IN IF ~UserValid(b.name, b.email, role)
            THEN Res(500, "Failed to register user", d)
            ELSE ResBody(201,
                         [d EXCEPT !.users = @ \cup {newUser}, !.seq.users = id],
                         {[id |-> id, name |-> b.name, email |-> b.email]})

(* login with an answer of its own for an email no Identity has.           *)
LoginHandlerTellsApart(d, b, t) ==
    IF b.email = NoEmail \/ b.password = ""
    THEN Res(400, "Email and password required", d)
    ELSE IF ~\E u \in d.users : u.email = b.email
    THEN Res(401, "User not found", d)
    ELSE LET user == CHOOSE u \in d.users : u.email = b.email IN
         IF ~Compare(b.password, user.password)
         THEN Res(401, "Invalid email or password", d)
         ELSE ResBody(200, d, {Sign(user, t)})

(* POST /auth/login: the response and the token, if one is issued.         *)
LoginHandler(d, b, t) ==
    IF b.email = NoEmail \/ b.password = ""
    THEN Res(400, "Email and password required", d)
    ELSE IF ~\E u \in d.users : u.email = b.email
    THEN Res(401, "Invalid email or password", d)
    ELSE LET user == CHOOSE u \in d.users : u.email = b.email IN
         IF ~Compare(b.password, user.password)
         THEN Res(401, "Invalid email or password", d)
         ELSE ResBody(200, d, {Sign(user, t)})

(* POST /api/logout *)
LogoutHandler(d) == ResBody(200, d, {})

-----------------------------------------------------------------------------
(* PLAYER ROUTES.  A Player row is [id, name, userId]; age, position and   *)
(* team are nullable columns without validators, copied from the body the  *)
(* way name is, and are left out of the rows.                              *)

(* Foreign key Players.userId -> Users.id (NULL allowed).                  *)
UserFkOk(d, userId) == userId = 0 \/ userId \in Ids(d.users)

(* The child tables without their foreign key.                             *)
PlayerFkOff(d, playerId) == TRUE

(* Foreign key playerId -> Players.id of the three child tables.           *)
PlayerFkOk(d, playerId) == playerId \in Ids(d.players)

(* GET /api/players *)
GetPlayersHandler(d, user) == ResBody(200, d, d.players)

(* GET /api/players/:id *)
GetPlayerHandler(d, user, id) ==
    LET found == {p \in d.players : p.id = id} IN
    IF found = {} THEN Res(404, "Player not found", d)
    ELSE ResBody(200, d, found)

(* POST /api/players *)
CreatePlayerHandler(d, user, b) ==
    IF b.name = "" THEN Res(400, "Name is required", d)
    ELSE LET id == d.seq.players + 1
             newPlayer == [id |-> id, name |-> b.name, userId |-> b.userId]
         IN IF ~UserFkOk(d, b.userId)
            THEN Res(500, "Failed to create player", d)
            ELSE ResBody(201,
                         [d EXCEPT !.players = @ \cup {newPlayer}, !.seq.players = id],
                         {newPlayer})

(* The row after Player.update: a field the body does not carry is left    *)
(* as it is.                                                               *)
Updated(p, b) ==
    [id |-> p.id,
     name |-> IF b.name = "" THEN p.name ELSE b.name,
     userId |-> IF b.userId = 0 THEN p.userId ELSE b.userId]

(* PUT /api/players/:id *)
UpdatePlayerHandler(d, user, id, b) ==
    IF b.name = "<null>"
    THEN Res(500, "Failed to update player", d)
    ELSE LET matched == {p \in d.players : p.id = id} IN
         IF matched = {} THEN Res(404, "Player not found", d)
         ELSE IF ~UserFkOk(d, b.userId)
         THEN Res(500, "Failed to update player", d)
         ELSE LET rows == {IF p.id = id THEN Updated(p, b) ELSE p : p \in d.players}
                  d2 == [d EXCEPT !.players = rows]
              IN ResBody(200, d2, {p \in d2.players : p.id = id})

(* Player.destroy without the cascade.                                     *)
DestroyPlayerOnly(d, id) == [d EXCEPT !.players = {p \in @ : p.id # id}]

(* Player.destroy with the ON DELETE CASCADE of the child tables.          *)
Destroy(d, id) ==
    [d EXCEPT !.players = {p \in @ : p.id # id},
              !.stats = {r \in @ : r.playerId # id},
              !.sessions = {r \in @ : r.playerId # id},
              !.evals = {r \in @ : r.playerId # id}]

(* DELETE /api/players/:id *)
DeletePlayerHandler(d, user, id) ==
    IF ~\E p \in d.players : p.id = id
    THEN Res(404, "Player not found", d)
    ELSE ResBody(200, Destroy(d, id), {})

-----------------------------------------------------------------------------
(* PERFORMANCE STATS ROUTES *)

InRange(opt, lo, hi) == opt = <<>> \/ (opt[1] >= lo /\ opt[1] <= hi)

(* GET /api/stats/:playerId *)
GetStatsHandler(d, user, playerId) ==
    ResBody(200, d, {r \in d.stats : r.playerId = playerId})

(* POST /api/stats *)
CreateStatHandler(d, user, b) ==
    IF b.playerId = 0 \/ b.matchDate = ""
    THEN Res(400, "playerId and matchDate required", d)
    ELSE LET id == d.seq.stats + 1
             stat == [id |-> id, playerId |-> b.playerId,
                      passAccuracy |-> b.passAccuracy, matchDate |-> b.matchDate]
         IN IF ~InRange(b.passAccuracy, AccuracyMin, AccuracyMax) \/ ~PlayerFkOk(d, b.playerId)
            THEN Res(500, "Failed to create stat", d)
            ELSE ResBody(201,
                         [d EXCEPT !.stats = @ \cup {stat}, !.seq.stats = id],
                         {stat})

-----------------------------------------------------------------------------
(* TRAINING SESSION ROUTES *)

(* GET /api/training-sessions/:playerId *)
GetSessionsHandler(d, user, playerId) ==
    ResBody(200, d, {r \in d.sessions : r.playerId = playerId})

(* POST /api/training-sessions *)
CreateSessionHandler(d, user, b) ==
    IF b.playerId = 0 \/ b.date = ""
    THEN Res(400, "playerId and date required", d)
    ELSE LET id == d.seq.sessions + 1
             session == [id |-> id, playerId |-> b.playerId, date |-> b.date]
         IN IF ~PlayerFkOk(d, b.playerId)
            THEN Res(500, "Failed to create session", d)
            ELSE ResBody(201,
                         [d EXCEPT !.sessions = @ \cup {session}, !.seq.sessions = id],
                         {session})

-----------------------------------------------------------------------------
(* COACH EVALUATIONS ROUTES *)

(* GET /api/evaluations/:playerId, each row with its coach's name and email *)
GetEvaluationsHandler(d, user, playerId) ==
    ResBody(200, d,
            {[id |-> r.id, playerId |-> r.playerId, coachId |-> r.coachId,
              rating |-> r.rating,
              coach |-> {[name |-> u.name, email |-> u.email] :
                         u \in {c \in d.users : c.id = r.coachId}}] :
             r \in {e \in d.evals : e.playerId = playerId}})

(* The presence check without the rating: a body without one reaches      *)
(* CoachEvaluation.create and its allowNull: false.                        *)
CreateEvaluationHandlerNoRatingCheck(d, user, b) ==
    IF b.playerId = 0 \/ b.coachId = 0
    THEN Res(400, "playerId, coachId, and rating required", d)
    ELSE IF \/ b.rating = <<>>
            \/ ~InRange(b.rating, RatingMin, RatingMax)
            \/ ~PlayerFkOk(d, b.playerId)
            \/ b.coachId \notin Ids(d.users)
    THEN Res(500, "Failed to create evaluation", d)
    ELSE LET id == d.seq.evals + 1
             evaluation == [id |-> id, playerId |-> b.playerId,
                            coachId |-> b.coachId, rating |-> b.rating[1]]
         IN ResBody(201,
                    [d EXCEPT !.evals = @ \cup {evaluation}, !.seq.evals = id],
                    {evaluation})

(* POST /api/evaluations *)
CreateEvaluationHandler(d, user, b) ==
    IF b.playerId = 0 \/ b.coachId = 0 \/ b.rating = <<>>
    THEN Res(400, "playerId, coachId, and rating required", d)
    ELSE LET id == d.seq.evals + 1
             evaluation == [id |-> id, playerId |-> b.playerId,
                            coachId |-> b.coachId, rating |-> b.rating[1]]
         IN IF \/ ~InRange(b.rating, RatingMin, RatingMax)
               \/ ~PlayerFkOk(d, b.playerId)
               \/ b.coachId \notin Ids(d.users)
            THEN Res(500, "Failed to create evaluation", d)
            ELSE ResBody(201,
                         [d EXCEPT !.evals = @ \cup {evaluation}, !.seq.evals = id],
                         {evaluation})

-----------------------------------------------------------------------------
(* The routes as registered with app.get/post/put/delete: the middleware   *)
(* chain, then the handler.  A middleware that answers ends the request.   *)

Denied(m, d) == Res(m.status, m.error, d)

(* POST /auth/register, POST /auth/login and POST /api/logout are          *)
(* registered without middleware.                                          *)
RegisterRoute(d, header, t, b) == RegisterHandler(d, b)

LoginRoute(d, header, t, b) == LoginHandler(d, b, t)

LogoutRoute(d, header, t) == LogoutHandler(d)

(* GET /api/players *)
GetPlayersRoute(d, header, t) ==
    LET a == requireAuth(header, t) IN
    IF ~a.pass THEN Denied(a, d)
    ELSE GetPlayersHandler(d, a.user)

(* GET /api/players/:id *)
GetPlayerRoute(d, header, t, id) ==
    LET a == requireAuth(header, t) IN
    IF ~a.pass THEN Denied(a, d)
    ELSE GetPlayerHandler(d, a.user, id)

(* POST /api/players *)
CreatePlayerRoute(d, header, t, b) ==
    LET a == requireAuth(header, t) IN
    IF ~a.pass THEN Denied(a, d)
    ELSE CreatePlayerHandler(d, a.user, b)

(* PUT /api/players/:id *)
UpdatePlayerRoute(d, header, t, id, b) ==
    LET a == requireAuth(header, t) IN
    IF ~a.pass THEN Denied(a, d)
    ELSE LET c == requireCoach(a.user) IN
         IF ~c.pass THEN Denied(c, d)
         ELSE UpdatePlayerHandler(d, a.user, id, b)

(* DELETE registered with requireCoach in its chain.                       *)
DeletePlayerRouteCoachOnly(d, header, t, id) ==
    LET a == requireAuth(header, t) IN
    IF ~a.pass THEN Denied(a, d)
    ELSE LET c == requireCoach(a.user) IN
         IF ~c.pass THEN Denied(c, d)
         ELSE DeletePlayerHandler(d, a.user, id)

(* DELETE /api/players/:id *)
DeletePlayerRoute(d, header, t, id) ==
    LET a == requireAuth(header, t) IN
    IF ~a.pass THEN Denied(a, d)
    ELSE DeletePlayerHandler(d, a.user, id)

(* GET /api/stats/:playerId *)
GetStatsRoute(d, header, t, playerId) ==
    LET a == requireAuth(header, t) IN
    IF ~a.pass THEN Denied(a, d)
    ELSE GetStatsHandler(d, a.user, playerId)

(* POST /api/stats *)
CreateStatRoute(d, header, t, b) ==
    LET a == requireAuth(header, t) IN
    IF ~a.pass THEN Denied(a, d)
    ELSE CreateStatHandler(d, a.user, b)

(* GET /api/training-sessions/:playerId *)
GetSessionsRoute(d, header, t, playerId) ==
    LET a == requireAuth(header, t) IN
    IF ~a.pass THEN Denied(a, d)
    ELSE GetSessionsHandler(d, a.user, playerId)

(* The chain with the role check after the handler has run.               *)
CreateSessionRouteLate(d, header, t, b) ==
    LET a == requireAuth(header, t) IN
    IF ~a.pass THEN Denied(a, d)
    ELSE LET c == requireCoach(a.user)
             r == CreateSessionHandler(d, a.user, b)
         IN IF ~c.pass THEN Res(c.status, c.error, r.db) ELSE r

(* POST /api/training-sessions *)
CreateSessionRoute(d, header, t, b) ==
    LET a == requireAuth(header, t) IN
    IF ~a.pass THEN Denied(a, d)
    ELSE LET c == requireCoach(a.user) IN
         IF ~c.pass THEN Denied(c, d)
         ELSE CreateSessionHandler(d, a.user, b)

(* GET /api/evaluations/:playerId *)
GetEvaluationsRoute(d, header, t, playerId) ==
    LET a == requireAuth(header, t) IN
    IF ~a.pass THEN Denied(a, d)
    ELSE GetEvaluationsHandler(d, a.user, playerId)

(* POST /api/evaluations *)
CreateEvaluationRoute(d, header, t, b) ==
    LET a == requireAuth(header, t) IN
    IF ~a.pass THEN Denied(a, d)
    ELSE LET c == requireCoach(a.user) IN
         IF ~c.pass THEN Denied(c, d)
         ELSE CreateEvaluationHandler(d, a.user, b)

-----------------------------------------------------------------------------
(* Request bodies.                                                         *)

RegisterBodies == [name : UserNames, email : Emails, password : Passwords, role : RoleInputs]

(* The register bodies clients send: at most one field missing or wrong.   *)
Flaws(b) ==
    (IF Len(b.name) < NameMin THEN 1 ELSE 0)
    + (IF ~IsEmail(b.email) THEN 1 ELSE 0)
    + (IF b.password = "" THEN 1 ELSE 0)
    + (IF b.role \notin {"", "player", "coach"} THEN 1 ELSE 0)

RegisterSent == {b \in RegisterBodies : Flaws(b) <= 1}

LoginBodies == [email : Emails, password : LoginPasswords]
PlayerBodies == [name : PlayerNames, userId : UserIds]
UpdateBodies == [name : UpdateNames, userId : UserIds]
StatBodies == [playerId : PlayerIds, passAccuracy : Accuracies, matchDate : Dates]
SessionBodies == [playerId : PlayerIds, date : Dates]
EvaluationBodies == [playerId : PlayerIds, coachId : UserIds, rating : Ratings]

(* The bodies sent with header: requireAuth answers a request it turns     *)
(* away before anything reads the body, so one body stands for all there.  *)
Sent(header, bodies) ==
    IF requireAuth(header, now).pass THEN bodies ELSE {CHOOSE b \in bodies : TRUE}

-----------------------------------------------------------------------------
(* Initial state: the tables db.sync creates, empty.                       *)

Init ==
    /\ users = {}
    /\ players = {}
    /\ stats = {}
    /\ sessions = {}
    /\ evals = {}
    /\ seq = [users |-> 0, players |-> 0, stats |-> 0, sessions |-> 0, evals |-> 0]
    /\ now = 0
    /\ tokens = {}
    /\ last = [route |-> "", status |-> 0, error |-> ""]
    /\ deleted = {}
    /\ calls = {}

(* The requests taken one storage call at a time that have inserted no    *)
(* row.                                                                    *)
Rowless == {c \in calls : c.status # 201}

(* What a run has used up: rows inserted, tokens handed out, clock ticks,  *)
(* requests taken one storage call at a time.                              *)
Size(d, toks, t) ==
    d.seq.users + d.seq.players + d.seq.stats + d.seq.sessions + d.seq.evals
        + Cardinality(toks) + t + Cardinality(Rowless)

(* The response r of a route is sent: the database is as the handler left  *)
(* it.                                                                     *)
Serve(route, r) ==
    /\ users' = r.db.users
    /\ players' = r.db.players
    /\ stats' = r.db.stats
    /\ sessions' = r.db.sessions
    /\ evals' = r.db.evals
    /\ seq' = r.db.seq
    /\ last' = [route |-> route, status |-> r.status, error |-> r.error]

Register ==
    \E b \in RegisterSent :
        /\ Size(RegisterRoute(DB, NoHeader, now, b).db, tokens, now) <= MaxSize
        /\ Serve("POST /auth/register", RegisterRoute(DB, NoHeader, now, b))
        /\ UNCHANGED <<now, tokens, deleted, calls>>

Login ==
    \E b \in LoginBodies :
        LET r == LoginRoute(DB, NoHeader, now, b) IN
        /\ Serve("POST /auth/login", r)
        /\ tokens' = IF r.status = 200 THEN tokens \cup r.body ELSE tokens
        /\ Size(DB, tokens', now) <= MaxSize
        /\ UNCHANGED <<now, deleted, calls>>

Logout ==
    \E header \in Headers :
        /\ Serve("POST /api/logout", LogoutRoute(DB, header, now))
        /\ UNCHANGED <<now, tokens, deleted, calls>>

GetPlayers ==
    \E header \in Headers :
        /\ Serve("GET /api/players", GetPlayersRoute(DB, header, now))
        /\ UNCHANGED <<now, tokens, deleted, calls>>

GetPlayer ==
    \E header \in Headers : \E id \in Sent(header, PlayerIds) :
        /\ Serve("GET /api/players/:id", GetPlayerRoute(DB, header, now, id))
        /\ UNCHANGED <<now, tokens, deleted, calls>>

CreatePlayer ==
    \E header \in Headers : \E b \in Sent(header, PlayerBodies) :
        /\ Size(CreatePlayerRoute(DB, header, now, b).db, tokens, now) <= MaxSize
        /\ Serve("POST /api/players", CreatePlayerRoute(DB, header, now, b))
        /\ UNCHANGED <<now, tokens, deleted, calls>>

UpdatePlayer ==
    \E header \in Headers : \E id \in Sent(header, PlayerIds), b \in Sent(header, UpdateBodies) :
        /\ Serve("PUT /api/players/:id", UpdatePlayerRoute(DB, header, now, id, b))
        /\ UNCHANGED <<now, tokens, deleted, calls>>

DeletePlayer ==
    \E header \in Headers : \E id \in Sent(header, PlayerIds) :
        LET r == DeletePlayerRoute(DB, header, now, id) IN
        /\ Serve("DELETE /api/players/:id", r)
        /\ deleted' = IF r.status = 200 THEN deleted \cup {id} ELSE deleted
        /\ UNCHANGED <<now, tokens, calls>>

GetStats ==
    \E header \in Headers : \E playerId \in Sent(header, PlayerIds) :
        /\ Serve("GET /api/stats/:playerId", GetStatsRoute(DB, header, now, playerId))
        /\ UNCHANGED <<now, tokens, deleted, calls>>

CreateStat ==
    \E header \in Headers : \E b \in Sent(header, StatBodies) :
        /\ Size(CreateStatRoute(DB, header, now, b).db, tokens, now) <= MaxSize
        /\ Serve("POST /api/stats", CreateStatRoute(DB, header, now, b))
        /\ UNCHANGED <<now, tokens, deleted, calls>>

GetSessions ==
    \E header \in Headers : \E playerId \in Sent(header, PlayerIds) :
        /\ Serve("GET /api/training-sessions/:playerId", 
                 GetSessionsRoute(DB, header, now, playerId))
        /\ UNCHANGED <<now, tokens, deleted, calls>>

CreateSession ==
    \E header \in Headers : \E b \in Sent(header, SessionBodies) :
        /\ Size(CreateSessionRoute(DB, header, now, b).db, tokens, now) <= MaxSize
        /\ Serve("POST /api/training-sessions", CreateSessionRoute(DB, header, now, b))
        /\ UNCHANGED <<now, tokens, deleted, calls>>

GetEvaluations ==
    \E header \in Headers : \E playerId \in Sent(header, PlayerIds) :
        /\ Serve("GET /api/evaluations/:playerId", 
                 GetEvaluationsRoute(DB, header, now, playerId))
        /\ UNCHANGED <<now, tokens, deleted, calls>>

CreateEvaluation ==
    \E header \in Headers : \E b \in Sent(header, EvaluationBodies) :
        /\ Size(CreateEvaluationRoute(DB, header, now, b).db, tokens, now) <= MaxSize
        /\ Serve("POST /api/evaluations", CreateEvaluationRoute(DB, header, now, b))
        /\ UNCHANGED <<now, tokens, deleted, calls>>

(* The clock jwt reads moves on.                                           *)
Tick ==
    /\ Size(DB, tokens, now) < MaxSize
    /\ now' = now + 1
    /\ UNCHANGED <<users, players, stats, sessions, evals, seq, tokens, last, deleted, calls>>

Next ==
    \/ Register
    \/ Login
    \/ Logout
    \/ GetPlayers
    \/ GetPlayer
    \/ CreatePlayer
    \/ UpdatePlayer
    \/ DeletePlayer
    \/ GetStats
    \/ CreateStat
    \/ GetSessions
    \/ CreateSession
    \/ GetEvaluations
    \/ CreateEvaluation
    \/ Tick

Spec == Init /\ [][Next]_vars

-----------------------------------------------------------------------------
(* The handlers that await storage twice, one storage call at a time.      *)
(* Node runs a handler up to an await, and other requests run before it    *)
(* goes on; each storage call is one statement of the database.            *)

(* The outcome of a handler's first part: the answer it sent, or the       *)
(* database as it goes on to its second storage call.                      *)
AnsweredWith(r) == [answered |-> TRUE, res |-> r]

GoesOn(d) == [answered |-> FALSE, res |-> Res(0, "", d)]

(* POST /auth/register up to User.findOne.                                 *)
FindOneStep(d, b) ==
    IF b.name = "" \/ b.email = NoEmail \/ b.password = ""
    THEN AnsweredWith(Res(400, "Name, email, and password are required", d))
    ELSE IF \E u \in d.users : u.email = b.email
    THEN AnsweredWith(Res(400, "Email already in use", d))
    ELSE GoesOn(d)

(* User.create on a table without the unique index on email.               *)
CreateStepNoIndex(d, b) ==
    LET role == IF b.role = "" THEN "player" ELSE b.role
        id == d.seq.users + 1
        newUser == [id |-> id, name |-> b.name, email |-> b.email,
                    password |-> Hash(b.password), role |-> role]
    IN IF ~UserValid(b.name, b.email, role)
       THEN Res(500, "Failed to register user", d)
       ELSE ResBody(201,
                    [d EXCEPT !.users = @ \cup {newUser}, !.seq.users = id],
                    {[id |-> id, name |-> b.name, email |-> b.email]})

(* POST /auth/register from bcrypt.hash on: User.create runs the           *)
(* validators, and the INSERT meets the unique index on email; either      *)
(* failure is thrown and caught.                                           *)
CreateStep(d, b) ==
    LET role == IF b.role = "" THEN "player" ELSE b.role
        id == d.seq.users + 1
        newUser == [id |-> id, name |-> b.name, email |-> b.email,
                    password |-> Hash(b.password), role |-> role]
    IN IF ~UserValid(b.name, b.email, role) \/ (\E u \in d.users : u.email = b.email)
       THEN Res(500, "Failed to register user", d)
       ELSE ResBody(201,
                    [d EXCEPT !.users = @ \cup {newUser}, !.seq.users = id],
                    {[id |-> id, name |-> b.name, email |-> b.email]})

(* PUT /api/players/:id up to Player.update: the middleware chain, the     *)
(* validators, the UPDATE.                                                 *)
UpdateStep(d, header, t, id, b) ==
    LET a == requireAuth(header, t) IN
    IF ~a.pass THEN AnsweredWith(Denied(a, d))
    ELSE LET c == requireCoach(a.user) IN
         IF ~c.pass THEN AnsweredWith(Denied(c, d))
         ELSE IF b.name = "<null>"
         THEN AnsweredWith(Res(500, "Failed to update player", d))
         ELSE IF ~\E p \in d.players : p.id = id
         THEN AnsweredWith(Res(404, "Player not found", d))
         ELSE IF ~UserFkOk(d, b.userId)
         THEN AnsweredWith(Res(500, "Failed to update player", d))
         ELSE GoesOn([d EXCEPT !.players =
                         {IF p.id = id THEN Updated(p, b) ELSE p : p \in d.players}])

(* PUT /api/players/:id from Player.findByPk on: res.json(updatedPlayer),  *)
(* null when no row has the id.                                            *)
FindByPkStep(d, id) == ResBody(200, d, {p \in d.players : p.id = id})

(* A request between the two storage calls of its handler; n tells it     *)
(* from the same request sent again while it is in flight.                 *)
Call(route, pc, id, email, b) ==
    LET c == [n |-> 1, route |-> route, pc |-> pc, id |-> id, email |-> email,
              b |-> b, status |-> 0, error |-> "", body |-> {}]
        taken == {x.n : x \in {y \in calls : [y EXCEPT !.n = 1] = c}}
    IN [c EXCEPT !.n = CHOOSE k \in 1..(Cardinality(taken) + 1) : k \notin taken]

(* The request once answered, with the response it got.                    *)
AnsweredCall(c, r) ==
    [c EXCEPT !.n = 0, !.pc = "done", !.b = <<>>, !.status = r.status,
              !.error = r.error, !.body = r.body]

Store(d) ==
    /\ users' = d.users
    /\ players' = d.players
    /\ stats' = d.stats
    /\ sessions' = d.sessions
    /\ evals' = d.evals
    /\ seq' = d.seq

Answer(route, r) == last' = [route |-> route, status |-> r.status, error |-> r.error]

(* The register bodies of the interleaved requests: those of RegisterSent  *)
(* without the short name and the unknown role, which User.create turns    *)
(* away the way it does the malformed email.                               *)
RegisterRaced == {b \in RegisterSent : b.name # "A" /\ b.role # "admin"}

RegisterFindOne ==
    \E b \in RegisterRaced :
        LET s == FindOneStep(DB, b) IN
        /\ ~s.answered => Size(DB, tokens, now) < MaxSize
        /\ IF s.answered
           THEN Answer("POST /auth/register", s.res) /\ calls' = calls
           ELSE /\ last' = last
                /\ calls' = calls \cup {Call("POST /auth/register", "create", 0, b.email, <<b>>)}
        /\ UNCHANGED <<users, players, stats, sessions, evals, seq, now, tokens, deleted>>

RegisterCreate ==
    \E c \in calls :
        /\ c.route = "POST /auth/register"
        /\ c.pc = "create"
        /\ LET r == CreateStep(DB, c.b[1]) IN
           /\ Store(r.db)
           /\ Answer(c.route, r)
           /\ calls' = (calls \ {c}) \cup {AnsweredCall(c, r)}
        /\ UNCHANGED <<now, tokens, deleted>>

UpdatePlayerUpdate ==
    \E header \in Headers : \E id \in Sent(header, PlayerIds), b \in Sent(header, UpdateBodies) :
        LET s == UpdateStep(DB, header, now, id, b) IN
        /\ ~s.answered => Size(DB, tokens, now) < MaxSize
        /\ Store(s.res.db)
        /\ IF s.answered
           THEN Answer("PUT /api/players/:id", s.res) /\ calls' = calls
           ELSE /\ last' = last
                /\ calls' = calls \cup {Call("PUT /api/players/:id", "findByPk", id, NoEmail, <<>>)}
        /\ UNCHANGED <<now, tokens, deleted>>

UpdatePlayerFindByPk ==
    \E c \in calls :
        /\ c.route = "PUT /api/players/:id"
        /\ c.pc = "findByPk"
        /\ LET r == FindByPkStep(DB, c.id) IN
           /\ Store(r.db)
           /\ Answer(c.route, r)
           /\ calls' = (calls \ {c}) \cup {AnsweredCall(c, r)}
        /\ UNCHANGED <<now, tokens, deleted>>

(* The requests of register and update interleaved with each other and     *)
(* with the routes they depend on: login for the token, the create and the *)
(* delete of Players.                                                      *)
NextConcurrent ==
    \/ RegisterFindOne
    \/ RegisterCreate
    \/ Login
    \/ CreatePlayer
    \/ UpdatePlayerUpdate
    \/ UpdatePlayerFindByPk
    \/ DeletePlayer

SpecConcurrent == Init /\ [][NextConcurrent]_vars

-----------------------------------------------------------------------------
(* What the properties below range over.                                   *)

Stored == <<users, players, stats, sessions, evals, seq>>

(* The token login would hand each registered identity now, and the tokens *)
(* handed out so far.                                                      *)
SignedTokens == tokens \cup {Sign(u, now) : u \in users}

AnyHeaders == {NoHeader} \cup {Bearer(t) : t \in SignedTokens \cup {ForgedToken}}

Accepted(header) == requireAuth(header, now).pass

RoleOf(header) == requireAuth(header, now).user.role

GuardedRoutes ==
    {"GET /api/players", "GET /api/players/:id", "POST /api/players",
     "PUT /api/players/:id", "DELETE /api/players/:id",
     "GET /api/stats/:playerId", "POST /api/stats",
     "GET /api/training-sessions/:playerId", "POST /api/training-sessions",
     "GET /api/evaluations/:playerId", "POST /api/evaluations"}

CoachRoutes ==
    {"PUT /api/players/:id", "POST /api/training-sessions", "POST /api/evaluations"}

(* The responses of every guarded route to a request carrying header h.    *)
GuardedResponses(h) ==
    {GetPlayersRoute(DB, h, now)}
    \cup {GetPlayerRoute(DB, h, now, id) : id \in PlayerIds}
    \cup {CreatePlayerRoute(DB, h, now, b) : b \in PlayerBodies}
    \cup {UpdatePlayerRoute(DB, h, now, x[1], x[2]) : x \in PlayerIds \X UpdateBodies}
    \cup {DeletePlayerRoute(DB, h, now, id) : id \in PlayerIds}
    \cup {GetStatsRoute(DB, h, now, id) : id \in PlayerIds}
    \cup {CreateStatRoute(DB, h, now, b) : b \in StatBodies}
    \cup {GetSessionsRoute(DB, h, now, id) : id \in PlayerIds}
    \cup {CreateSessionRoute(DB, h, now, b) : b \in SessionBodies}
    \cup {GetEvaluationsRoute(DB, h, now, id) : id \in PlayerIds}
    \cup {CreateEvaluationRoute(DB, h, now, b) : b \in EvaluationBodies}

-----------------------------------------------------------------------------
(* C1: a request to a guarded route that is answered 401 or 403 leaves     *)
(* every stored User, Player, PerformanceStat, TrainingSession and         *)
(* CoachEvaluation (and the table counters) as they were.                  *)
DeniedRequestChangesNothing ==
    [][(last'.route \in GuardedRoutes /\ last'.status \in {401, 403})
          => Stored' = Stored]_vars

(* A player's token was answered 403 on a coach-only route while Players   *)
(* are stored.                                                             *)
DeniedWithDataStored ==
    /\ last.route \in CoachRoutes
    /\ last.status = 403
    /\ players # {}
    /\ users # {}

-----------------------------------------------------------------------------
(* Valid input of the coach-only routes: the required fields are there,    *)
(* the rows referred to are stored, the values are in range.               *)

ValidUpdate(id, b) ==
    /\ id \in Ids(players)
    /\ b.name # "<null>"
    /\ b.userId = 0 \/ b.userId \in Ids(users)

ValidSession(b) == b.playerId \in Ids(players) /\ b.date # ""

ValidEvaluation(b) ==
    /\ b.playerId \in Ids(players)
    /\ b.coachId \in Ids(users)
    /\ b.rating # <<>>
    /\ b.rating[1] \in RatingMin..RatingMax

(* C2: on the three coach-only routes a request with a valid token of role *)
(* player is answered 403, and the same request with a valid token of role *)
(* coach succeeds on valid input: 200 on the update, 201 on the creates.   *)
CoachOnlyRoutesCheckRole ==
    \A h \in AnyHeaders :
        Accepted(h) =>
            /\ \A id \in PlayerIds, b \in UpdateBodies :
                   LET r == UpdatePlayerRoute(DB, h, now, id, b) IN
                   /\ RoleOf(h) = "player" => r.status = 403
                   /\ (RoleOf(h) = "coach" /\ ValidUpdate(id, b)) => r.status = 200
            /\ \A b \in SessionBodies :
                   LET r == CreateSessionRoute(DB, h, now, b) IN
                   /\ RoleOf(h) = "player" => r.status = 403
                   /\ (RoleOf(h) = "coach" /\ ValidSession(b)) => r.status = 201
            /\ \A b \in EvaluationBodies :
                   LET r == CreateEvaluationRoute(DB, h, now, b) IN
                   /\ RoleOf(h) = "player" => r.status = 403
                   /\ (RoleOf(h) = "coach" /\ ValidEvaluation(b)) => r.status = 201

(* A coach's token has created a TrainingSession.                          *)
CoachCreatedSession ==
    /\ last.route = "POST /api/training-sessions"
    /\ last.status = 201
    /\ \E tok \in tokens : tok.role = "coach"
    /\ sessions # {}

-----------------------------------------------------------------------------
(* C3: every endpoint other than /auth/register, /auth/login and /health   *)
(* answers 401 to a request without a valid Bearer token, POST /api/logout *)
(* included.                                                               *)
EveryOtherEndpointNeedsToken ==
    \A h \in AnyHeaders :
        ~Accepted(h) =>
            /\ LogoutRoute(DB, h, now).status = 401
            /\ \A r \in GuardedResponses(h) : r.status = 401

-----------------------------------------------------------------------------
(* C4, as stated: a token of login expires ExpiresIn after it was issued,  *)
(* is accepted on every guarded route at every time up to and including    *)
(* its expiry, and is answered 401 at every later time.                    *)
TokenAcceptedThroughExpiry ==
    \A tok \in tokens :
        /\ tok.exp = tok.iat + ExpiresIn
        /\ now <= tok.exp =>
               /\ Accepted(Bearer(tok))
               /\ \A r \in GuardedResponses(Bearer(tok)) : r.status # 401
        /\ now > tok.exp => \A r \in GuardedResponses(Bearer(tok)) : r.status = 401

(* C4, amended: the token is accepted on every guarded route at every time *)
(* before its expiry and answered 401 from its expiry on.                  *)
TokenAcceptedBeforeExpiry ==
    \A tok \in tokens :
        /\ tok.exp = tok.iat + ExpiresIn
        /\ now < tok.exp =>
               /\ Accepted(Bearer(tok))
               /\ \A r \in GuardedResponses(Bearer(tok)) : r.status # 401
        /\ now >= tok.exp => \A r \in GuardedResponses(Bearer(tok)) : r.status = 401

(* A request carrying a token was answered "Token expired" at the very     *)
(* time of the token's expiry.                                             *)
TokenRefusedAtExpiry ==
    /\ \E tok \in tokens : now = tok.exp
    /\ last.route \in GuardedRoutes
    /\ last.status = 401
    /\ last.error = "Token expired. Please log in again."

-----------------------------------------------------------------------------
(* Register requests.                                                      *)

AllPresent(b) == b.name # "" /\ b.email # NoEmail /\ b.password # ""

Registered(email) == \E u \in users : u.email = email

(* The fields are ones the User model takes: a name of NameMin to NameMax  *)
(* characters, a well-formed email, a role that is omitted or one of the   *)
(* two roles.                                                              *)
WellFormed(b) ==
    /\ Len(b.name) \in NameMin..NameMax
    /\ IsEmail(b.email)
    /\ b.role \in {"", "player", "coach"}

(* The response stores exactly one new Identity, made from b.              *)
StoresOneIdentity(r, b) ==
    /\ Cardinality(r.db.users) = Cardinality(users) + 1
    /\ users \subseteq r.db.users
    /\ \A u \in r.db.users \ users :
           /\ u.id \notin Ids(users)
           /\ u.name = b.name
           /\ u.email = b.email
           /\ u.role = IF b.role = "" THEN "player" ELSE b.role
           /\ Compare(b.password, u.password)

-----------------------------------------------------------------------------
(* C6, as stated: once an email is registered, every register request with *)
(* that email is answered 400 "Email already in use" and stores nothing,   *)
(* whatever its other fields.                                              *)
RegisteredEmailAlwaysConflicts ==
    \A b \in RegisterBodies :
        Registered(b.email) =>
            RegisterRoute(DB, NoHeader, now, b) = Res(400, "Email already in use", DB)

(* C6, amended: every such request is answered 400 and stores nothing; the *)
(* answer is "Email already in use" when name and password are present,    *)
(* and the missing-field answer otherwise.                                 *)
RegisteredEmailNeverStored ==
    \A b \in RegisterBodies :
        Registered(b.email) =>
            LET r == RegisterRoute(DB, NoHeader, now, b) IN
            /\ r.status = 400
            /\ r.db = DB
            /\ AllPresent(b) => r.error = "Email already in use"
            /\ ~AllPresent(b) => r.error = "Name, email, and password are required"

(* A register request for a registered email was answered with the         *)
(* conflict.                                                               *)
RegisterAnsweredConflict ==
    /\ last.route = "POST /auth/register"
    /\ last.status = 400
    /\ last.error = "Email already in use"
    /\ users # {}

-----------------------------------------------------------------------------
(* C7: a logout changes the decision of requireAuth for no token: a token  *)
(* accepted before the logout is accepted after it, a token refused before *)
(* is refused after, and the tokens handed out stay as they are.           *)
LogoutKeepsTokenDecisions ==
    [][(last' # last /\ last'.route = "POST /api/logout") =>
          /\ tokens' = tokens
          /\ \A tok \in tokens \cup {ForgedToken} :
                 requireAuth(Bearer(tok), now)' = requireAuth(Bearer(tok), now)]_vars

(* A logout has been served and a token handed out before it is still     *)
(* accepted.                                                               *)
TokenAcceptedAfterLogout ==
    /\ last.route = "POST /api/logout"
    /\ last.status = 200
    /\ \E tok \in tokens : Accepted(Bearer(tok))

-----------------------------------------------------------------------------
(* The responses of the guarded routes without requireCoach to a request   *)
(* carrying header h, each with the request it answers.                    *)
OpenResponses(h) ==
    {<<"GET /api/players", 0, GetPlayersRoute(DB, h, now)>>}
    \cup {<<"GET /api/players/:id", id, GetPlayerRoute(DB, h, now, id)>> : id \in PlayerIds}
    \cup {<<"POST /api/players", b, CreatePlayerRoute(DB, h, now, b)>> : b \in PlayerBodies}
    \cup {<<"DELETE /api/players/:id", id, DeletePlayerRoute(DB, h, now, id)>> : id \in PlayerIds}
    \cup {<<"GET /api/stats/:playerId", id, GetStatsRoute(DB, h, now, id)>> : id \in PlayerIds}
    \cup {<<"POST /api/stats", b, CreateStatRoute(DB, h, now, b)>> : b \in StatBodies}
    \cup {<<"GET /api/training-sessions/:playerId", id, GetSessionsRoute(DB, h, now, id)>> :
             id \in PlayerIds}
    \cup {<<"GET /api/evaluations/:playerId", id, GetEvaluationsRoute(DB, h, now, id)>> :
             id \in PlayerIds}

(* C8: on the guarded routes without requireCoach, the same request in the *)
(* same stored state gets the same status, the same body and the same      *)
(* state change with any two valid tokens, whatever their roles (every     *)
(* valid token is compared with one of them).                              *)
OpenRoutesIgnoreRole ==
    LET accepted == {h \in AnyHeaders : Accepted(h)} IN
    accepted # {} =>
        LET h1 == CHOOSE h \in accepted : TRUE
            answers == OpenResponses(h1)
        IN \A h2 \in accepted \ {h1} : OpenResponses(h2) = answers

(* A token of role player has deleted a Player.                            *)
PlayerRoleDeleted ==
    /\ last.route = "DELETE /api/players/:id"
    /\ last.status = 200
    /\ tokens # {}
    /\ \A tok \in tokens : tok.role = "player"

-----------------------------------------------------------------------------
(* C9: once DELETE /api/players/:id has succeeded for a Player, the three  *)
(* list routes return nothing for its id, in every later state.            *)
DeletedPlayerListsNothing ==
    \A p \in deleted, h \in AnyHeaders :
        Accepted(h) =>
            /\ GetStatsRoute(DB, h, now, p) = ResBody(200, DB, {})
            /\ GetSessionsRoute(DB, h, now, p) = ResBody(200, DB, {})
            /\ GetEvaluationsRoute(DB, h, now, p) = ResBody(200, DB, {})

(* A Player that had a child row has been deleted, and a list route has    *)
(* been served since.                                                      *)
ListedAfterCascade ==
    /\ deleted # {}
    /\ seq.stats + seq.sessions + seq.evals > 0
    /\ stats = {} /\ sessions = {} /\ evals = {}
    /\ last.route \in {"GET /api/stats/:playerId", "GET /api/training-sessions/:playerId",
                       "GET /api/evaluations/:playerId"}
    /\ last.status = 200

-----------------------------------------------------------------------------
(* C10: every stored PerformanceStat, TrainingSession and CoachEvaluation  *)
(* has the id of a stored Player as its playerId, and a create whose       *)
(* playerId is the id of no stored Player stores nothing.                  *)
ChildrenReferenceStoredPlayers ==
    /\ \A r \in stats : r.playerId \in Ids(players)
    /\ \A r \in sessions : r.playerId \in Ids(players)
    /\ \A r \in evals : r.playerId \in Ids(players)
    /\ \A h \in AnyHeaders :
           /\ \A b \in StatBodies :
                  b.playerId \notin Ids(players) =>
                      CreateStatRoute(DB, h, now, b).db = DB
           /\ \A b \in SessionBodies :
                  b.playerId \notin Ids(players) =>
                      CreateSessionRoute(DB, h, now, b).db = DB
           /\ \A b \in EvaluationBodies :
                  b.playerId \notin Ids(players) =>
                      CreateEvaluationRoute(DB, h, now, b).db = DB

(* A TrainingSession is stored for a Player, and a create naming a Player  *)
(* that is not stored has been refused.                                    *)
CreateForMissingPlayerRefused ==
    /\ sessions # {}
    /\ last.route = "POST /api/training-sessions"
    /\ last.status = 500

-----------------------------------------------------------------------------
(* C11: with a valid token, GET and DELETE /api/players/:id, and PUT with  *)
(* a coach's token and any body, are answered 404 for an id no stored      *)
(* Player has, and leave every stored record as it was.                    *)
MissingPlayerAnswered404 ==
    \A h \in AnyHeaders :
        Accepted(h) =>
            \A id \in PlayerIds :
                id \notin Ids(players) =>
                    /\ GetPlayerRoute(DB, h, now, id) = Res(404, "Player not found", DB)
                    /\ DeletePlayerRoute(DB, h, now, id) = Res(404, "Player not found", DB)
                    /\ RoleOf(h) = "coach" =>
                           \A b \in UpdateBodies :
                               UpdatePlayerRoute(DB, h, now, id, b)
                                   = Res(404, "Player not found", DB)

-----------------------------------------------------------------------------
(* The requests of the create routes that lack a required field.           *)

SufficientRole(h, route) == route \in CoachRoutes => RoleOf(h) = "coach"

(* C12: with a valid token of a sufficient role, a create request lacking  *)
(* a required field is answered 400 and stores nothing, whatever its other *)
(* fields: name on players; playerId or matchDate on stats; playerId or    *)
(* date on training sessions; playerId, coachId or rating on evaluations.  *)
CreateWithoutRequiredFieldIs400 ==
    \A h \in AnyHeaders :
        Accepted(h) =>
            /\ \A b \in PlayerBodies :
                   b.name = "" =>
                       LET r == CreatePlayerRoute(DB, h, now, b) IN
                       r.status = 400 /\ r.db = DB
            /\ \A b \in StatBodies :
                   (b.playerId = 0 \/ b.matchDate = "") =>
                       LET r == CreateStatRoute(DB, h, now, b) IN
                       r.status = 400 /\ r.db = DB
            /\ SufficientRole(h, "POST /api/training-sessions") =>
                   \A b \in SessionBodies :
                       (b.playerId = 0 \/ b.date = "") =>
                           LET r == CreateSessionRoute(DB, h, now, b) IN
                           r.status = 400 /\ r.db = DB
            /\ SufficientRole(h, "POST /api/evaluations") =>
                   \A b \in EvaluationBodies :
                       (b.playerId = 0 \/ b.coachId = 0 \/ b.rating = <<>>) =>
                           LET r == CreateEvaluationRoute(DB, h, now, b) IN
                           r.status = 400 /\ r.db = DB

(* A coach's create request for an evaluation lacking a required field was *)
(* answered 400 while a Player and an evaluation of it are stored.         *)
CoachCreateAnswered400 ==
    /\ last.route = "POST /api/evaluations"
    /\ last.status = 400
    /\ last.error = "playerId, coachId, and rating required"
    /\ evals # {}

-----------------------------------------------------------------------------
(* C13: every stored CoachEvaluation has a rating in RatingMin..RatingMax  *)
(* and every stored PerformanceStat with a passAccuracy has it in          *)
(* AccuracyMin..AccuracyMax; a create request that is complete and names   *)
(* stored rows but carries an out-of-range value is answered 400 and       *)
(* stores nothing.                                                         *)
OutOfRangeCreateIs400 ==
    /\ \A e \in evals : e.rating \in RatingMin..RatingMax
    /\ \A s \in stats : InRange(s.passAccuracy, AccuracyMin, AccuracyMax)
    /\ \A h \in AnyHeaders :
           Accepted(h) =>
               /\ \A b \in StatBodies :
                      (/\ b.playerId \in Ids(players)
                       /\ b.matchDate # ""
                       /\ ~InRange(b.passAccuracy, AccuracyMin, AccuracyMax)) =>
                          LET r == CreateStatRoute(DB, h, now, b) IN
                          r.status = 400 /\ r.db = DB
               /\ RoleOf(h) = "coach" =>
                      \A b \in EvaluationBodies :
                          (/\ b.playerId \in Ids(players)
                           /\ b.coachId \in Ids(users)
                           /\ ~InRange(b.rating, RatingMin, RatingMax)) =>
                              LET r == CreateEvaluationRoute(DB, h, now, b) IN
                              r.status = 400 /\ r.db = DB

-----------------------------------------------------------------------------
(* Login requests that fail on their credentials.                          *)

WrongPassword(b) ==
    /\ b.password # ""
    /\ \E u \in users : u.email = b.email /\ ~Compare(b.password, u.password)

UnknownEmail(b) == b.email # NoEmail /\ b.password # "" /\ ~Registered(b.email)

(* C14: a login with a registered email and a wrong password and a login   *)
(* with an email no Identity has get the same response: status 401 and the *)
(* same error body.                                                        *)
LoginFailuresAlike ==
    \A b1 \in LoginBodies, b2 \in LoginBodies :
        (WrongPassword(b1) /\ UnknownEmail(b2)) =>
            LET r1 == LoginRoute(DB, NoHeader, now, b1)
                r2 == LoginRoute(DB, NoHeader, now, b2)
            IN /\ r1.status = 401
               /\ r2.status = 401
               /\ r1.error = r2.error
               /\ r1.body = r2.body

(* A login was refused for its credentials while one of the two emails is  *)
(* registered and the other is not.                                        *)
LoginRefusedOneEmailRegistered ==
    /\ last.route = "POST /auth/login"
    /\ last.status = 401
    /\ last.error = "Invalid email or password"
    /\ Registered(EmailA)
    /\ ~Registered(EmailB)

-----------------------------------------------------------------------------
(* C15: no request changes the role (or removes the row) of a stored       *)
(* Identity, and the role every accepted token carries is the role stored  *)
(* for the Identity whose id it carries.                                   *)
RoleFixedAtRegistration ==
    /\ [](\A tok \in tokens \cup {ForgedToken} :
              Accepted(Bearer(tok)) =>
                  \E u \in users : u.id = tok.id /\ u.role = tok.role)
    /\ [][\A u \in users : \E v \in users' : v.id = u.id /\ v.role = u.role]_vars

(* A coach holds an accepted token, and a register request naming the      *)
(* coach's email has been answered since.                                  *)
RegisterRetriedByTokenHolder ==
    /\ \E tok \in tokens : Accepted(Bearer(tok)) /\ tok.role = "coach"
    /\ last.route = "POST /auth/register"
    /\ last.status = 400
    /\ last.error = "Email already in use"

-----------------------------------------------------------------------------
(* C16: with register handlers interleaved between their findOne and their *)
(* create, no two stored Identities share an email, and of the register    *)
(* requests that were in flight for one email at most one is answered 201. *)
EmailsStayUnique ==
    /\ \A u \in users, v \in users : u.email = v.email => u = v
    /\ \A c1 \in calls, c2 \in calls :
           (/\ c1.route = "POST /auth/register"
            /\ c2.route = "POST /auth/register"
            /\ c1.email = c2.email
            /\ c1.status = 201
            /\ c2.status = 201) => c1 = c2

(* Two register requests for one email both found it unregistered; one was *)
(* answered 201 and the other met the unique index.                        *)
TwoRegistersRaced ==
    \E c1 \in calls, c2 \in calls :
        /\ c1.route = "POST /auth/register"
        /\ c2.route = "POST /auth/register"
        /\ c1.email = c2.email
        /\ c1.status = 201
        /\ c2.status = 500
        /\ Cardinality({u \in users : u.email = c1.email}) = 1

-----------------------------------------------------------------------------
(* C17: whenever PUT /api/players/:id is answered 200, the body is the     *)
(* stored Player with that id, never an empty one, with other requests     *)
(* (a DELETE of the id among them) between the update and the refetch.     *)
UpdateAnswersStoredPlayer ==
    [][\A c \in calls' :
           (/\ c \notin calls
            /\ c.route = "PUT /api/players/:id"
            /\ c.status = 200) =>
               /\ c.body # {}
               /\ c.body = {p \in players' : p.id = c.id}]_vars

====
